---- MODULE Spec2Model ----
(***************************************************************************)
(* A model of tensorboard/plugins/hparams/api.py: the value objects        *)
(* Experiment, HParam, Metric and the Domain variants IntInterval,         *)
(* RealInterval and Discrete, their construction-time validation and their *)
(* translation into HParamInfo / MetricInfo records.                       *)
(*                                                                         *)
(* Python values are records [t, v, nan]: t is the name of the value's     *)
(* type, v its numeric value (for a str: its code, "" = 0, "a" = 1,        *)
(* "b" = 2, ordered as the strings are), nan marks the float NaN.          *)
(* Python lists are mutable objects: they live in `heap`, a function from  *)
(* list references to sequences, and objects hold references.              *)
(***************************************************************************)
EXTENDS Integers, Sequences, FiniteSets, TLC

\* Longest list handed to Discrete(values) by the constructor scenario.
MaxLen == 3
\* Longest list handed to Discrete(values) by the update scenario.
MaxValues == 2
\* Most consecutive update_hparam_info calls of one domain on one record.
MaxCalls == 3
\* Longest list of HParams, and of Metrics, the client builds.
MaxList == 2
MaxMetrics == 1

VARIABLES
  heap,      \* list reference -> contents of that list object
  call,      \* the last constructor call of the client: class and arguments
  result,    \* what that call produced: an object, or the error it raised
  got,       \* the list reference the client received from its last property read
  justRead,  \* the property read in the last step, "none" after any other step
  exp,       \* the Experiment object the client built, NoObject before
  out,       \* the outcome of the last summary_pb() / as_proto() call
  info,      \* the HParamInfo record the client passes to update_hparam_info
  prev,      \* that record as it was before the last update_hparam_info call
  first,     \* that record after the first call of the current run of calls
  ncalls,    \* consecutive update_hparam_info calls of the domain on the record
  pc         \* where the client of the update scenario is in its script

vars == <<heap, call, result, got, justRead, exp, out, info, prev, first, ncalls, pc>>

----------------------------------------------------------------------------
\* Python values

PyNone == [t |-> "NoneType", v |-> 0, nan |-> FALSE]
PyBool(b) == [t |-> "bool", v |-> IF b THEN 1 ELSE 0, nan |-> FALSE]
PyInt(n) == [t |-> "int", v |-> n, nan |-> FALSE]
PyFloat(n) == [t |-> "float", v |-> n, nan |-> FALSE]
PyNaN == [t |-> "float", v |-> 0, nan |-> TRUE]
PyStr(k) == [t |-> "str", v |-> k, nan |-> FALSE]

\* The `None` passed (or defaulted) where a type object is expected.
NoneArg == "None"

\* A plausible slip: comparing type(x) with T, which forgets subclasses.
isinstance_exact_type(x, T) == x.t = T

\* isinstance(x, T) for T among the builtin types: bool is a subclass of int.
isinstance(x, T) ==
  IF T = "int" THEN x.t \in {"int", "bool"} ELSE x.t = T

\* a < b and a > b on values Python can compare (numbers with numbers, str
\* with str): every comparison with NaN is False.
PyLt(a, b) == ~a.nan /\ ~b.nan /\ a.v < b.v
PyGt(a, b) == ~a.nan /\ ~b.nan /\ a.v > b.v

\* a == b: numbers compare by value across bool, int and float; NaN equals
\* nothing; values of unrelated types are unequal.
PyEq(a, b) ==
  LET num == {"bool", "int", "float"}
  IN  /\ ~a.nan /\ ~b.nan
      /\ a.v = b.v
      /\ (a.t = b.t \/ (a.t \in num /\ b.t \in num))

\* The outcome of a call: the object it returned, or the exception it raised.
Ok(o) == [ok |-> TRUE, err |-> "", obj |-> o]
Raise(e) == [ok |-> FALSE, err |-> e, obj |-> PyNone]

\* list(x): a new list object (at reference `dst`) with the contents of `src`.
list_copy(h, src, dst) == [heap |-> [h EXCEPT ![dst] = h[src]], ref |-> dst]

----------------------------------------------------------------------------
\* list.sort(): CPython's listsort on a short list: count_run finds the
\* leading run (reversing a strictly descending one), binarysort inserts
\* the remaining elements by binary search. Only `<` is used.

RECURSIVE CountRunDesc(_, _)
CountRunDesc(a, n) ==
  IF n < Len(a) /\ PyLt(a[n + 1], a[n]) THEN CountRunDesc(a, n + 1) ELSE n

RECURSIVE CountRunAsc(_, _)
CountRunAsc(a, n) ==
  IF n < Len(a) /\ ~PyLt(a[n + 1], a[n]) THEN CountRunAsc(a, n + 1) ELSE n

Reverse(s) == [i \in 1..Len(s) |-> s[Len(s) + 1 - i]]

\* l and r are 0-based as in the C code; the loop runs while l < r.
RECURSIVE BinarySearch(_, _, _, _)
BinarySearch(a, pivot, l, r) ==
  IF l >= r THEN l
  ELSE LET p == l + ((r - l) \div 2)
       IN  IF PyLt(pivot, a[p + 1])
           THEN BinarySearch(a, pivot, l, p)
           ELSE BinarySearch(a, pivot, p + 1, r)

\* a[0..start) is sorted; insert a[start], a[start+1], ... one by one.
RECURSIVE BinarySort(_, _)
BinarySort(a, start) ==
  IF start >= Len(a) THEN a
  ELSE LET pivot == a[start + 1]
           l == BinarySearch(a, pivot, 0, start)
           b == [i \in 1..Len(a) |->
                   IF i <= l THEN a[i]
                   ELSE IF i = l + 1 THEN pivot
                   ELSE IF i <= start + 1 THEN a[i - 1]
                   ELSE a[i]]
       IN  BinarySort(b, start + 1)

list_sort(a) ==
  IF Len(a) < 2 THEN a
  ELSE IF PyLt(a[2], a[1])
       THEN LET n == CountRunDesc(a, 2)
            IN  BinarySort(Reverse(SubSeq(a, 1, n)) \o SubSeq(a, n + 1, Len(a)), n)
       ELSE BinarySort(a, CountRunAsc(a, 2))

----------------------------------------------------------------------------
\* Domain constructors and accessors

IsDomain(x) == x.t \in {"IntInterval", "RealInterval", "Discrete"}

IntInterval_init(min_value, max_value) ==
  IF ~isinstance(min_value, "int") THEN Raise("TypeError")
  ELSE IF ~isinstance(max_value, "int") THEN Raise("TypeError")
  ELSE IF PyGt(min_value, max_value) THEN Raise("ValueError")
  ELSE Ok([t |-> "IntInterval", min_value |-> min_value, max_value |-> max_value])

RealInterval_init(min_value, max_value) ==
  IF ~isinstance(min_value, "float") THEN Raise("TypeError")
  ELSE IF ~isinstance(max_value, "float") THEN Raise("TypeError")
  ELSE IF PyGt(min_value, max_value) THEN Raise("ValueError")
  ELSE Ok([t |-> "RealInterval", min_value |-> min_value, max_value |-> max_value])

\* The min_value / max_value properties of both interval classes.
Interval_min_value(self) == self.min_value
Interval_max_value(self) == self.max_value

\* The dtype property: int for IntInterval, float for RealInterval, the
\* resolved dtype for Discrete.
Domain_dtype(self) ==
  IF self.t = "IntInterval" THEN "int"
  ELSE IF self.t = "RealInterval" THEN "float"
  ELSE self.dtype

\* Discrete(values, dtype): `values` is the reference of the caller's list.
\* The result carries the heap after the call: the object's own list is a
\* copy at "selfV", sorted in place as the last step.
Discrete_init(h, values, dtype) ==
  LET c == list_copy(h, values, "selfV")
      vs == c.heap[c.ref]
  IN  IF dtype = NoneArg /\ vs = <<>>
      THEN [res |-> Raise("ValueError"), heap |-> h]
      ELSE LET dt == IF dtype = NoneArg THEN vs[1].t ELSE dtype
           IN  IF dt \notin {"int", "float", "bool", "str"}
               THEN [res |-> Raise("ValueError"), heap |-> h]
               ELSE IF \E i \in 1..Len(vs) : ~isinstance(vs[i], dt)
               THEN [res |-> Raise("TypeError"), heap |-> h]
               ELSE [res |-> Ok([t |-> "Discrete", values |-> c.ref, dtype |-> dt]),
                     heap |-> [c.heap EXCEPT ![c.ref] = list_sort(vs)]]

\* The values property: list(self._values), a new list at "retV".
Discrete_values(h, self) == list_copy(h, self.values, "retV")

----------------------------------------------------------------------------
\* The wire records (api_pb2): HParamInfo with the oneof `domain` over
\* domain_discrete (a ListValue) and domain_interval, and MetricInfo.
\* `domain` is the member of the oneof that is set ("none": neither); the
\* payload of a member that is not set reads as its default.

DefaultInterval == [min_value |-> PyFloat(0), max_value |-> PyFloat(0)]

\* A string field given at construction: None leaves it unset (""), a str
\* sets it, any other value is a TypeError.
StringFieldOk(x) == x.t \in {"NoneType", "str"}
StringField(x) == IF x.t = "str" THEN x.v ELSE 0

\* float(x) when a number is stored in a double field.
ToDouble(x) == IF x.t = "float" THEN x ELSE PyFloat(x.v)

\* A Python value stored in a ListValue: bool -> bool_value, int and float ->
\* number_value (a double), str -> string_value.
ToValue(x) ==
  IF x.t = "bool" THEN [kind |-> "bool_value", val |-> x]
  ELSE IF x.t \in {"int", "float"} THEN [kind |-> "number_value", val |-> ToDouble(x)]
  ELSE IF x.t = "str" THEN [kind |-> "string_value", val |-> x]
  ELSE [kind |-> "null_value", val |-> PyNone]

HParamInfo_new(name, description, display_name) ==
  IF StringFieldOk(name) /\ StringFieldOk(description) /\ StringFieldOk(display_name)
  THEN Ok([name |-> StringField(name),
           description |-> StringField(description),
           display_name |-> StringField(display_name),
           type |-> "DATA_TYPE_UNSET",
           domain |-> "none",
           domain_interval |-> DefaultInterval,
           domain_discrete |-> <<>>])
  ELSE Raise("TypeError")

\* hparam_info.type = tag
SetType(hparam_info, tag) == [hparam_info EXCEPT !.type = tag]

\* hparam_info.domain_interval.<field> = x: writing into the sub-record makes
\* domain_interval the set member of the oneof, which clears domain_discrete.
SetIntervalField(hparam_info, field, x) ==
  LET base == IF hparam_info.domain = "domain_interval"
              THEN hparam_info.domain_interval ELSE DefaultInterval
  IN  [hparam_info EXCEPT !.domain = "domain_interval",
                   !.domain_discrete = <<>>,
                   !.domain_interval = [base EXCEPT ![field] = ToDouble(x)]]

\* hparam_info.ClearField("domain_discrete"): clears that member only.
ClearDiscrete(hparam_info) ==
  IF hparam_info.domain = "domain_discrete"
  THEN [hparam_info EXCEPT !.domain = "none", !.domain_discrete = <<>>]
  ELSE hparam_info

\* hparam_info.domain_discrete.extend(values): each appended value makes
\* domain_discrete the set member of the oneof (clearing domain_interval);
\* extending by nothing writes nothing.
ExtendDiscrete(hparam_info, values) ==
  IF values = <<>> THEN hparam_info
  ELSE LET base == IF hparam_info.domain = "domain_discrete"
                   THEN hparam_info.domain_discrete ELSE <<>>
       IN  [hparam_info EXCEPT !.domain = "domain_discrete",
                        !.domain_interval = DefaultInterval,
                        !.domain_discrete =
                            base \o [i \in 1..Len(values) |-> ToValue(values[i])]]

\* An enum field given at construction: None leaves it unset (0), an
\* integer sets it, any other value is a TypeError.
EnumFieldOk(x) == x.t \in {"NoneType", "int", "bool"}
EnumField(x) == IF x.t = "NoneType" THEN 0 ELSE x.v

MetricInfo_new(group, tag, display_name, description, dataset_type) ==
  IF /\ StringFieldOk(group) /\ StringFieldOk(tag)
     /\ StringFieldOk(display_name) /\ StringFieldOk(description)
     /\ EnumFieldOk(dataset_type)
  THEN Ok([name |-> [group |-> StringField(group), tag |-> StringField(tag)],
           display_name |-> StringField(display_name),
           description |-> StringField(description),
           dataset_type |-> EnumField(dataset_type)])
  ELSE Raise("TypeError")

\* summary.experiment_pb: the assembly function; its envelope is opaque and
\* is modelled as the arguments it was given.
experiment_pb(hparam_infos, metric_infos, user, description, time_created_secs) ==
  [hparam_infos |-> hparam_infos,
   metric_infos |-> metric_infos,
   user |-> user,
   description |-> description,
   time_created_secs |-> time_created_secs]

----------------------------------------------------------------------------
\* update_hparam_info of the three domains

IntInterval_update_hparam_info(self, hparam_info) ==
  LET i1 == SetType(hparam_info, "DATA_TYPE_FLOAT64")
      i2 == SetIntervalField(i1, "min_value", self.min_value)
  IN  SetIntervalField(i2, "max_value", self.max_value)

RealInterval_update_hparam_info(self, hparam_info) ==
  LET i1 == SetType(hparam_info, "DATA_TYPE_FLOAT64")
      i2 == SetIntervalField(i1, "min_value", self.min_value)
  IN  SetIntervalField(i2, "max_value", self.max_value)

\* A plausible slip: testing "is it an int?" first, which a bool dtype passes.
Discrete_hparam_type_bool_as_int(dtype) ==
  IF dtype \in {"int", "bool"} THEN "DATA_TYPE_FLOAT64"
  ELSE IF dtype = "float" THEN "DATA_TYPE_FLOAT64"
  ELSE "DATA_TYPE_STRING"

\* The dict lookup {int: FLOAT64, float: FLOAT64, bool: BOOL, str: STRING}[dtype].
Discrete_hparam_type(dtype) ==
  IF dtype = "int" THEN "DATA_TYPE_FLOAT64"
  ELSE IF dtype = "float" THEN "DATA_TYPE_FLOAT64"
  ELSE IF dtype = "bool" THEN "DATA_TYPE_BOOL"
  ELSE "DATA_TYPE_STRING"

\* A plausible slip: extending without clearing first.
Discrete_update_hparam_info_no_clear(h, self, hparam_info) ==
  ExtendDiscrete(SetType(hparam_info, Discrete_hparam_type(self.dtype)), h[self.values])

Discrete_update_hparam_info(h, self, hparam_info) ==
  LET i1 == SetType(hparam_info, Discrete_hparam_type(self.dtype))
      i2 == ClearDiscrete(i1)
  IN  ExtendDiscrete(i2, h[self.values])

\* domain.update_hparam_info(hparam_info): dispatch on the domain's class.
Domain_update_hparam_info(h, self, hparam_info) ==
  IF self.t = "IntInterval" THEN IntInterval_update_hparam_info(self, hparam_info)
  ELSE IF self.t = "RealInterval" THEN RealInterval_update_hparam_info(self, hparam_info)
  ELSE Discrete_update_hparam_info(h, self, hparam_info)

----------------------------------------------------------------------------
\* HParam and Metric

\* A plausible slip: storing the domain without checking it.
HParam_init_unchecked(name, domain, display_name, description) ==
  Ok([t |-> "HParam", name |-> name, domain |-> domain,
      display_name |-> display_name, description |-> description])

HParam_init(name, domain, display_name, description) ==
  IF ~(IsDomain(domain) \/ domain.t = "NoneType")
  THEN Raise("ValueError")
  ELSE Ok([t |-> "HParam", name |-> name, domain |-> domain,
           display_name |-> display_name, description |-> description])

HParam_name(self) == self.name
HParam_domain(self) == self.domain
HParam_display_name(self) == self.display_name
HParam_description(self) == self.description

\* Metric.TRAINING and Metric.VALIDATION: the enum numbers of
\* api_pb2.DATASET_TRAINING and api_pb2.DATASET_VALIDATION.
Metric_TRAINING == PyInt(1)
Metric_VALIDATION == PyInt(2)

\* x in (None, Metric.TRAINING, Metric.VALIDATION): identity or ==.
InDatasetTypes(x) ==
  x = PyNone \/ PyEq(x, Metric_TRAINING) \/ PyEq(x, Metric_VALIDATION)

Metric_init(tag, group, display_name, description, dataset_type) ==
  IF ~InDatasetTypes(dataset_type)
  THEN Raise("ValueError")
  ELSE Ok([t |-> "Metric", tag |-> tag, group |-> group,
           display_name |-> display_name, description |-> description,
           dataset_type |-> dataset_type])

Metric_as_proto(self) ==
  MetricInfo_new(self.group, self.tag, self.display_name, self.description,
                 self.dataset_type)

----------------------------------------------------------------------------
\* Experiment

\* Experiment(hparams, metrics, user, description, time_created_secs):
\* `hparams` and `metrics` are the references of the caller's lists, `now`
\* is what time.time() returns during the call.
Experiment_init(h, hparams, metrics, user, description, time_created_secs, now) ==
  LET c1 == list_copy(h, hparams, "expH")
      c2 == list_copy(c1.heap, metrics, "expM")
  IN  [heap |-> c2.heap,
       obj |-> [t |-> "Experiment",
                hparams |-> c1.ref,
                metrics |-> c2.ref,
                user |-> user,
                description |-> description,
                time_created_secs |->
                    IF time_created_secs = PyNone THEN now ELSE time_created_secs]]

\* A plausible slip: handing out the internal list itself.
Experiment_hparams_no_copy(h, self) == [heap |-> h, ref |-> self.hparams]

\* The hparams and metrics properties: list(self._hparams), list(self._metrics).
\* "ret" holds the list the latest of these reads returned.
Experiment_hparams(h, self) == list_copy(h, self.hparams, "ret")
Experiment_metrics(h, self) == list_copy(h, self.metrics, "ret")

Experiment_user(self) == self.user
Experiment_description(self) == self.description
Experiment_time_created_secs(self) == self.time_created_secs

\* One turn of the loop over self._hparams: the HParamInfo of one element.
\* An element without the HParam attributes, or a domain without
\* update_hparam_info, is an AttributeError.
HParamInfoOf(h, hparam) ==
  IF hparam.t # "HParam" THEN Raise("AttributeError")
  ELSE LET made == HParamInfo_new(hparam.name, hparam.description, hparam.display_name)
       IN  IF ~made.ok THEN made
           ELSE IF hparam.domain.t = "NoneType" THEN made
           ELSE IF ~IsDomain(hparam.domain) THEN Raise("AttributeError")
           ELSE Ok(Domain_update_hparam_info(h, hparam.domain, made.obj))

\* One element of the metric_infos comprehension.
MetricInfoOf(metric) ==
  IF metric.t # "Metric" THEN Raise("AttributeError") ELSE Metric_as_proto(metric)

\* The outcomes of a loop over s, in order, up to and including the first
\* one that raised.
RECURSIVE EachUntilRaise(_, _)
EachUntilRaise(s, outcomes) ==
  IF s = <<>> THEN outcomes
  ELSE IF ~Head(s).ok THEN Append(outcomes, Head(s))
  ELSE EachUntilRaise(Tail(s), Append(outcomes, Head(s)))

\* A plausible slip: prepending each record instead of appending it.
Experiment_summary_pb_reversed(h, self) ==
  LET hs == Reverse(h[self.hparams])
      ms == h[self.metrics]
      hres == EachUntilRaise([i \in 1..Len(hs) |-> HParamInfoOf(h, hs[i])], <<>>)
      mres == EachUntilRaise([i \in 1..Len(ms) |-> MetricInfoOf(ms[i])], <<>>)
  IN  IF hres # <<>> /\ ~hres[Len(hres)].ok THEN hres[Len(hres)]
      ELSE IF mres # <<>> /\ ~mres[Len(mres)].ok THEN mres[Len(mres)]
      ELSE Ok(experiment_pb([i \in 1..Len(hres) |-> hres[i].obj],
                            [i \in 1..Len(mres) |-> mres[i].obj],
                            self.user, self.description, self.time_created_secs))

Experiment_summary_pb(h, self) ==
  LET hs == h[self.hparams]
      ms == h[self.metrics]
      hres == EachUntilRaise([i \in 1..Len(hs) |-> HParamInfoOf(h, hs[i])], <<>>)
      mres == EachUntilRaise([i \in 1..Len(ms) |-> MetricInfoOf(ms[i])], <<>>)
  IN  IF hres # <<>> /\ ~hres[Len(hres)].ok THEN hres[Len(hres)]
      ELSE IF mres # <<>> /\ ~mres[Len(mres)].ok THEN mres[Len(mres)]
      ELSE Ok(experiment_pb([i \in 1..Len(hres) |-> hres[i].obj],
                            [i \in 1..Len(mres) |-> mres[i].obj],
                            self.user, self.description, self.time_created_secs))

----------------------------------------------------------------------------
\* What the client scenarios share

Refs == {"callerV", "selfV", "retV", "callerH", "callerM", "expH", "expM", "ret"}
EmptyHeap == [r \in Refs |-> <<>>]

NoObject == [t |-> "none"]
NoCall == [cls |-> "none", args |-> <<>>]
NoResult == [ok |-> FALSE, err |-> "none", obj |-> PyNone]
NoRef == "none"
NoOut == [op |-> "none", res |-> NoResult]

SeqsUpTo(S, n) == UNION {[1..k -> S] : k \in 0..n}

\* The values the client passes as bounds and as elements of `values`.
Values ==
  {PyNone, PyBool(FALSE), PyBool(TRUE), PyInt(0), PyInt(1), PyInt(2),
   PyFloat(0), PyFloat(1), PyNaN, PyStr(1), PyStr(2)}

\* The dtype arguments: absent, the four allowed types, and another type.
DtypeArgs == {NoneArg, "int", "float", "bool", "str", "complex"}

\* What the client does to a list it holds: pop() or append(x), within MaxLen.
ListMutations(s, x) ==
  (IF s # <<>> THEN {SubSeq(s, 1, Len(s) - 1)} ELSE {})
    \cup (IF Len(s) < MaxLen THEN {Append(s, x)} ELSE {})

FreshInfo == HParamInfo_new(PyNone, PyNone, PyNone).obj

----------------------------------------------------------------------------
\* Scenario Ctor: the client constructs one domain from arbitrary arguments,
\* then reads Discrete.values and mutates the lists it holds.

Init ==
  /\ heap = EmptyHeap
  /\ call = NoCall
  /\ result = NoResult
  /\ got = NoRef
  /\ justRead = "none"
  /\ exp = NoObject
  /\ out = NoOut
  /\ info = FreshInfo
  /\ prev = FreshInfo
  /\ first = FreshInfo
  /\ ncalls = 0
  /\ pc = "start"

NewIntInterval ==
  /\ call = NoCall
  /\ \E a \in Values, b \in Values :
    /\ call' = [cls |-> "IntInterval", args |-> <<a, b>>]
    /\ result' = IntInterval_init(a, b)
    /\ heap' = EmptyHeap
    /\ got' = NoRef
    /\ justRead' = "none"
    /\ UNCHANGED <<exp, out, info, prev, first, ncalls, pc>>

NewRealInterval ==
  /\ call = NoCall
  /\ \E a \in Values, b \in Values :
    /\ call' = [cls |-> "RealInterval", args |-> <<a, b>>]
    /\ result' = RealInterval_init(a, b)
    /\ heap' = EmptyHeap
    /\ got' = NoRef
    /\ justRead' = "none"
    /\ UNCHANGED <<exp, out, info, prev, first, ncalls, pc>>

NewDiscrete ==
  /\ call = NoCall
  /\ \E vs \in SeqsUpTo(Values, MaxLen), dt \in DtypeArgs :
    LET r == Discrete_init([EmptyHeap EXCEPT !["callerV"] = vs], "callerV", dt)
    IN  /\ call' = [cls |-> "Discrete", args |-> <<vs, dt>>]
        /\ result' = r.res
        /\ heap' = r.heap
        /\ got' = NoRef
        /\ justRead' = "none"
        /\ UNCHANGED <<exp, out, info, prev, first, ncalls, pc>>

ReadValues ==
  /\ result.ok /\ result.obj.t = "Discrete"
  /\ LET r == Discrete_values(heap, result.obj)
     IN  /\ heap' = r.heap
         /\ got' = r.ref
  /\ justRead' = "values"
  /\ UNCHANGED <<call, result, exp, out, info, prev, first, ncalls, pc>>

MutateReturnedValues ==
  /\ got # NoRef
  /\ \E s \in ListMutations(heap[got], PyInt(0)) :
       heap' = [heap EXCEPT ![got] = s]
  /\ justRead' = "none"
  /\ UNCHANGED <<call, result, got, exp, out, info, prev, first, ncalls, pc>>

MutateCallerValues ==
  /\ call.cls = "Discrete" /\ result.ok
  /\ \E s \in ListMutations(heap["callerV"], PyInt(0)) :
       heap' = [heap EXCEPT !["callerV"] = s]
  /\ justRead' = "none"
  /\ UNCHANGED <<call, result, got, exp, out, info, prev, first, ncalls, pc>>

NextCtor ==
  \/ NewIntInterval
  \/ NewRealInterval
  \/ NewDiscrete
  \/ ReadValues
  \/ MutateReturnedValues
  \/ MutateCallerValues

SpecCtor == Init /\ [][NextCtor]_vars

----------------------------------------------------------------------------
\* Scenario Update: the client creates an HParamInfo record, may let one
\* domain update it, then constructs a domain and calls its
\* update_hparam_info on the record up to MaxCalls times in a row.

\* The (name, description, display_name) arguments of the records.
InfoArgs == {<<PyNone, PyNone, PyNone>>, <<PyStr(1), PyStr(2), PyStr(1)>>}

\* The domain constructions the client may try.
DomainCalls ==
  {[cls |-> "IntInterval", args |-> <<a, b>>] : a \in Values, b \in Values}
    \cup {[cls |-> "RealInterval", args |-> <<a, b>>] : a \in Values, b \in Values}
    \cup {[cls |-> "Discrete", args |-> <<vs, dt>>] :
            vs \in SeqsUpTo(Values, MaxValues), dt \in DtypeArgs}

\* The call c made on an empty heap; the client drops its own list afterwards.
ConstructDomain(c) ==
  IF c.cls = "IntInterval"
  THEN [res |-> IntInterval_init(c.args[1], c.args[2]), heap |-> EmptyHeap]
  ELSE IF c.cls = "RealInterval"
  THEN [res |-> RealInterval_init(c.args[1], c.args[2]), heap |-> EmptyHeap]
  ELSE LET r == Discrete_init([EmptyHeap EXCEPT !["callerV"] = c.args[1]],
                              "callerV", c.args[2])
       IN  [res |-> r.res, heap |-> [r.heap EXCEPT !["callerV"] = <<>>]]

NewInfo ==
  /\ pc = "start"
  /\ \E a \in InfoArgs :
       LET made == HParamInfo_new(a[1], a[2], a[3])
       IN  /\ made.ok
           /\ info' = made.obj
           /\ prev' = made.obj
           /\ first' = made.obj
  /\ pc' = "record"
  /\ UNCHANGED <<heap, call, result, got, justRead, exp, out, ncalls>>

\* Another domain, constructed and dropped, updates the record first.
PriorUpdate ==
  /\ pc = "record"
  /\ \E c \in DomainCalls :
       LET r == ConstructDomain(c)
       IN  /\ r.res.ok
           /\ info' = Domain_update_hparam_info(r.heap, r.res.obj, info)
  /\ prev' = info'
  /\ first' = info'
  /\ pc' = "prior"
  /\ UNCHANGED <<heap, call, result, got, justRead, exp, out, ncalls>>

NewDomain ==
  /\ pc \in {"record", "prior"}
  /\ \E c \in DomainCalls :
       LET r == ConstructDomain(c)
       IN  /\ r.res.ok
           /\ result' = r.res
           /\ heap' = r.heap
  /\ pc' = "domain"
  /\ UNCHANGED <<call, got, justRead, exp, out, info, prev, first, ncalls>>

\* result.obj.update_hparam_info(info); prev keeps the record as it was
\* before the first call, first the record after the first call.
UpdateHParamInfo ==
  /\ pc = "domain"
  /\ ncalls < MaxCalls
  /\ info' = Domain_update_hparam_info(heap, result.obj, info)
  /\ first' = IF ncalls = 0 THEN info' ELSE first
  /\ ncalls' = ncalls + 1
  /\ UNCHANGED <<heap, call, result, got, justRead, exp, out, prev, pc>>

NextUpdate ==
  \/ NewInfo
  \/ PriorUpdate
  \/ NewDomain
  \/ UpdateHParamInfo

SpecUpdate == Init /\ [][NextUpdate]_vars

----------------------------------------------------------------------------
\* Scenario Summary: the client constructs HParams, then Metrics, appending
\* each constructed object to its list, constructs the Experiment from the
\* two lists, and calls summary_pb() and as_proto().

\* The domains the HParams share: RealInterval(0.0, 1.0) and
\* Discrete(["b", "a"]), whose list is at "selfV".
TheReal == RealInterval_init(PyFloat(0), PyFloat(1)).obj
TheDiscreteCall ==
  Discrete_init([EmptyHeap EXCEPT !["callerV"] = <<PyStr(2), PyStr(1)>>], "callerV", NoneArg)
TheDiscrete == TheDiscreteCall.res.obj

\* (name, display_name, description) and domain arguments of HParam(...):
\* 42 stands for a value that is neither a str nor a Domain.
HParamNames ==
  {<<PyStr(1), PyNone, PyNone>>, <<PyStr(2), PyStr(1), PyStr(2)>>, <<PyInt(42), PyNone, PyNone>>}
HParamDomains == {PyNone, PyInt(42), TheReal, TheDiscrete}

\* (tag, group, display_name, description) and dataset_type arguments of
\* Metric(...): 1.0 equals Metric.TRAINING, "b" is no dataset type.
MetricNames ==
  {<<PyStr(1), PyNone, PyNone, PyNone>>, <<PyStr(2), PyStr(1), PyStr(2), PyStr(1)>>}
MetricDatasets == {PyNone, Metric_VALIDATION, PyFloat(1), PyStr(2)}

\* (user, description, time_created_secs) arguments of Experiment(...).
ExperimentArgs == {<<PyNone, PyNone, PyNone>>, <<PyStr(1), PyStr(2), PyFloat(5)>>}
\* What time.time() returns when the client constructs the Experiment.
Now == PyFloat(7)

InitSummary ==
  /\ heap = [TheDiscreteCall.heap EXCEPT !["callerV"] = <<>>]
  /\ call = NoCall
  /\ result = NoResult
  /\ got = NoRef
  /\ justRead = "none"
  /\ exp = NoObject
  /\ out = NoOut
  /\ info = FreshInfo
  /\ prev = FreshInfo
  /\ first = FreshInfo
  /\ ncalls = 0
  /\ pc = "start"

\* hparams.append(HParam(name, domain, display_name, description))
NewHParam ==
  /\ exp = NoObject
  /\ heap["callerM"] = <<>>
  /\ Len(heap["callerH"]) < MaxList
  /\ \E n \in HParamNames, d \in HParamDomains :
       LET r == HParam_init(n[1], d, n[2], n[3])
       IN  /\ call' = [cls |-> "HParam", args |-> <<n[1], d, n[2], n[3]>>]
           /\ result' = r
           /\ heap' = IF r.ok
                      THEN [heap EXCEPT !["callerH"] = Append(@, r.obj)]
                      ELSE heap
  /\ UNCHANGED <<got, justRead, exp, out, info, prev, first, ncalls, pc>>

\* metrics.append(Metric(tag, group, display_name, description, dataset_type))
NewMetric ==
  /\ exp = NoObject
  /\ Len(heap["callerM"]) < MaxMetrics
  /\ \E n \in MetricNames, d \in MetricDatasets :
       LET r == Metric_init(n[1], n[2], n[3], n[4], d)
       IN  /\ call' = [cls |-> "Metric", args |-> <<n[1], n[2], n[3], n[4], d>>]
           /\ result' = r
           /\ heap' = IF r.ok
                      THEN [heap EXCEPT !["callerM"] = Append(@, r.obj)]
                      ELSE heap
  /\ UNCHANGED <<got, justRead, exp, out, info, prev, first, ncalls, pc>>

\* exp = Experiment(hparams, metrics, user, description, time_created_secs);
\* call keeps the contents the two lists had at that moment.
NewExperiment ==
  /\ exp = NoObject
  /\ \E a \in ExperimentArgs :
       LET r == Experiment_init(heap, "callerH", "callerM", a[1], a[2], a[3], Now)
       IN  /\ call' = [cls |-> "Experiment",
                       args |-> <<heap["callerH"], heap["callerM"], a[1], a[2], a[3]>>]
           /\ result' = Ok(r.obj)
           /\ exp' = r.obj
           /\ heap' = r.heap
  /\ justRead' = "none"
  /\ UNCHANGED <<got, out, info, prev, first, ncalls, pc>>

SummaryPb ==
  /\ exp # NoObject
  /\ out' = [op |-> "summary_pb", res |-> Experiment_summary_pb(heap, exp)]
  /\ justRead' = "none"
  /\ UNCHANGED <<heap, call, result, got, exp, info, prev, first, ncalls, pc>>

\* exp.metrics[i].as_proto()
AsProto ==
  /\ exp # NoObject
  /\ \E i \in 1..Len(heap[exp.metrics]) :
       out' = [op |-> "as_proto", res |-> Metric_as_proto(heap[exp.metrics][i])]
  /\ justRead' = "none"
  /\ UNCHANGED <<heap, call, result, got, exp, info, prev, first, ncalls, pc>>

Next ==
  \/ NewHParam
  \/ NewMetric
  \/ NewExperiment
  \/ SummaryPb
  \/ AsProto

Spec == InitSummary /\ [][Next]_vars

----------------------------------------------------------------------------
\* Scenario Alias: the client holds a list of HParams and a list of Metrics,
\* constructs the Experiment from them, and then reads the accessors, calls
\* summary_pb(), and mutates its own lists and the lists the accessors
\* returned, in any order.

HPool ==
  {HParam_init(PyStr(1), PyNone, PyNone, PyNone).obj,
   HParam_init(PyStr(2), TheReal, PyNone, PyNone).obj}
MPool == {Metric_init(PyStr(1), PyNone, PyNone, PyNone, PyNone).obj}

InitAlias ==
  /\ \E hs \in [1..MaxList -> HPool], ms \in [1..MaxMetrics -> MPool] :
       heap = [EmptyHeap EXCEPT !["callerH"] = hs, !["callerM"] = ms]
  /\ call = NoCall
  /\ result = NoResult
  /\ got = NoRef
  /\ justRead = "none"
  /\ exp = NoObject
  /\ out = NoOut
  /\ info = FreshInfo
  /\ prev = FreshInfo
  /\ first = FreshInfo
  /\ ncalls = 0
  /\ pc = "start"

\* What a client can do to a list it holds: pop the last element, or append
\* some object (here a str).
ClientMutations(s) ==
  (IF s # <<>> THEN {SubSeq(s, 1, Len(s) - 1)} ELSE {})
    \cup (IF Len(s) < MaxList THEN {Append(s, PyStr(1))} ELSE {})

\* got = exp.hparams
ReadHParams ==
  /\ exp # NoObject
  /\ LET r == Experiment_hparams(heap, exp)
     IN  /\ heap' = r.heap
         /\ got' = r.ref
  /\ justRead' = "hparams"
  /\ UNCHANGED <<call, result, exp, out, info, prev, first, ncalls, pc>>

\* got = exp.metrics
ReadMetrics ==
  /\ exp # NoObject
  /\ LET r == Experiment_metrics(heap, exp)
     IN  /\ heap' = r.heap
         /\ got' = r.ref
  /\ justRead' = "metrics"
  /\ UNCHANGED <<call, result, exp, out, info, prev, first, ncalls, pc>>

\* (exp.user, exp.description, exp.time_created_secs)
ReadScalars ==
  /\ exp # NoObject
  /\ out' = [op |-> "scalars",
             res |-> Ok(<<Experiment_user(exp), Experiment_description(exp),
                          Experiment_time_created_secs(exp)>>)]
  /\ justRead' = "none"
  /\ UNCHANGED <<heap, call, result, got, exp, info, prev, first, ncalls, pc>>

\* The client mutates one of the lists it passed to Experiment(...).
MutateCallerList ==
  /\ exp # NoObject
  /\ \E ref \in {"callerH", "callerM"} :
       \E s \in ClientMutations(heap[ref]) :
         heap' = [heap EXCEPT ![ref] = s]
  /\ justRead' = "none"
  /\ UNCHANGED <<call, result, got, exp, out, info, prev, first, ncalls, pc>>

\* The client mutates the list the last read of .hparams or .metrics returned.
MutateReturnedList ==
  /\ exp # NoObject
  /\ got # NoRef
  /\ \E s \in ClientMutations(heap[got]) :
       heap' = [heap EXCEPT ![got] = s]
  /\ justRead' = "none"
  /\ UNCHANGED <<call, result, got, exp, out, info, prev, first, ncalls, pc>>

NextAlias ==
  \/ NewExperiment
  \/ ReadHParams
  \/ ReadMetrics
  \/ ReadScalars
  \/ MutateCallerList
  \/ MutateReturnedList
  \/ SummaryPb

SpecAlias == InitAlias /\ [][NextAlias]_vars

----------------------------------------------------------------------------
\* Claims about the constructors (scenario Ctor)

\* min_value <= max_value as Python evaluates it.
PyLe(a, b) == ~a.nan /\ ~b.nan /\ a.v <= b.v

\* The types whose values are of the numeric kind an interval class expects.
ExpectedKind(cls) == IF cls = "IntInterval" THEN {"int", "bool"} ELSE {"float"}

\* C5: IntInterval / RealInterval construct successfully exactly when both
\* bounds are of the expected numeric kind and min_value <= max_value; a
\* bound of another kind (None included) is a TypeError whatever the order,
\* min_value > max_value with bounds of the right kind is a ValueError, and
\* on success min_value and max_value read back the arguments.
C5_IntervalConstruction ==
  call.cls \in {"IntInterval", "RealInterval"} =>
    LET lo == call.args[1]
        hi == call.args[2]
        kindOk == lo.t \in ExpectedKind(call.cls) /\ hi.t \in ExpectedKind(call.cls)
    IN  /\ result.ok <=> (kindOk /\ PyLe(lo, hi))
        /\ ~kindOk => (~result.ok /\ result.err = "TypeError")
        /\ (kindOk /\ PyGt(lo, hi)) => (~result.ok /\ result.err = "ValueError")
        /\ result.ok => /\ Interval_min_value(result.obj) = lo
                        /\ Interval_max_value(result.obj) = hi

\* What C6 expects of Discrete(vs, dtype): "" for success, else the error.
C6_Resolved(vs, dtype) ==
  IF dtype # NoneArg THEN dtype ELSE IF vs # <<>> THEN vs[1].t ELSE "unresolved"

C6_InstanceOf(x, T) ==
  \/ x.t = T
  \/ T = "int" /\ x.t = "bool"

C6_Expected(vs, dtype) ==
  IF dtype = NoneArg /\ vs = <<>> THEN "ValueError"
  ELSE IF C6_Resolved(vs, dtype) \notin {"int", "float", "bool", "str"} THEN "ValueError"
  ELSE IF \E i \in 1..Len(vs) : ~C6_InstanceOf(vs[i], C6_Resolved(vs, dtype)) THEN "TypeError"
  ELSE ""

\* C6: Discrete resolves its dtype as the explicit dtype, else as the type of
\* the first element; empty values without dtype is a ValueError, a resolved
\* dtype outside {int, float, bool, str} is a ValueError, an element that is
\* not an instance of the resolved dtype (a bool is an instance of int) is a
\* TypeError; every other call succeeds, Discrete([], dtype=str) among them.
C6_DiscreteConstruction ==
  call.cls = "Discrete" =>
    LET vs == call.args[1]
        dtype == call.args[2]
    IN  /\ result.ok <=> C6_Expected(vs, dtype) = ""
        /\ ~result.ok => result.err = C6_Expected(vs, dtype)
        /\ result.ok => Domain_dtype(result.obj) = C6_Resolved(vs, dtype)
        /\ (vs = <<>> /\ dtype = "str") =>
              (result.ok /\ heap[result.obj.values] = <<>>)

\* Discrete(["a", 1]): the dtype is inferred as str and the int is rejected.
C6_Witness ==
  /\ call.cls = "Discrete"
  /\ call.args = <<(<<PyStr(1), PyInt(1)>>), NoneArg>>
  /\ ~result.ok
  /\ result.err = "TypeError"

Count(s, x) == Cardinality({i \in 1..Len(s) : s[i] = x})

IsPermutationOf(a, b) ==
  /\ Len(a) = Len(b)
  /\ \A i \in 1..Len(b) : Count(a, b[i]) = Count(b, b[i])

\* No element is followed, anywhere later, by a smaller one.
Ascending(s) == \A i \in 1..Len(s) : \A j \in i..Len(s) : ~PyLt(s[j], s[i])

Orderings(s) ==
  {[i \in 1..Len(s) |-> s[f[i]]] :
     f \in {g \in [1..Len(s) -> 1..Len(s)] : \A i, j \in 1..Len(s) : g[i] = g[j] => i = j}}

\* Equal as Python lists are: element by element, the same object or ==.
SameList(a, b) ==
  /\ Len(a) = Len(b)
  /\ \A i \in 1..Len(a) : a[i] = b[i] \/ PyEq(a[i], b[i])

ValuesOf(vs, dtype) ==
  LET r == Discrete_init([EmptyHeap EXCEPT !["callerV"] = vs], "callerV", dtype)
  IN  r.heap[r.res.obj.values]

\* C7: every read of .values of a constructed Discrete is the input sorted
\* ascending: a permutation of the input, the same whatever the order of the
\* input when dtype is explicit, and a list of its own (so that mutating a
\* returned list does not change later reads).
C7_ValuesSorted ==
  justRead = "values" =>
    LET vs == call.args[1]
        dtype == call.args[2]
        vals == heap[got]
    IN  /\ IsPermutationOf(vals, vs)
        /\ Ascending(vals)
        /\ dtype # NoneArg => \A p \in Orderings(vs) : SameList(ValuesOf(p, dtype), vals)
        /\ got # result.obj.values

----------------------------------------------------------------------------
\* Claims about update_hparam_info (scenario Update)

\* The double a numeric bound or value is stored as.
AsDouble(x) == [t |-> "float", v |-> x.v, nan |-> x.nan]

\* C2: whatever the record held before, update_hparam_info of a constructed
\* domain leaves the record with its type set and exactly one domain variant
\* set (an interval domain: domain_interval with the domain's bounds and an
\* empty domain_discrete; a Discrete, an empty one included:
\* domain_discrete), and does not change name, description, display_name.
C2_UpdateSetsTypeAndOneVariant ==
  ncalls >= 1 =>
    LET d == result.obj
    IN  /\ info.type # "DATA_TYPE_UNSET"
        /\ info.domain \in {"domain_interval", "domain_discrete"}
        /\ d.t \in {"IntInterval", "RealInterval"} =>
              /\ info.domain = "domain_interval"
              /\ info.domain_interval = [min_value |-> AsDouble(d.min_value),
                                         max_value |-> AsDouble(d.max_value)]
              /\ info.domain_discrete = <<>>
        /\ d.t = "Discrete" => info.domain = "domain_discrete"
        /\ info.name = prev.name
        /\ info.description = prev.description
        /\ info.display_name = prev.display_name

\* The ListValue entry a value of a Discrete domain is written as.
AsListValue(x) ==
  [kind |-> IF x.t = "bool" THEN "bool_value"
            ELSE IF x.t = "str" THEN "string_value"
            ELSE "number_value",
   val |-> IF x.t \in {"bool", "str"} THEN x ELSE AsDouble(x)]

\* C8: after n >= 1 consecutive calls of a Discrete's update_hparam_info on
\* a record, the record equals the record after the first call, and its
\* domain_discrete holds the domain's sorted values once each, whatever
\* discrete content the record held before the first call.
C8_DiscreteUpdateIdempotent ==
  (ncalls >= 1 /\ result.obj.t = "Discrete") =>
    LET vals == heap[result.obj.values]
    IN  /\ info = first
        /\ Len(info.domain_discrete) = Len(vals)
        /\ \A i \in 1..Len(vals) : info.domain_discrete[i] = AsListValue(vals[i])

\* Two calls in a row on a record that held other discrete content before.
C8_Witness ==
  /\ ncalls >= 2
  /\ result.obj.t = "Discrete"
  /\ Len(heap[result.obj.values]) = 2
  /\ prev.domain = "domain_discrete"
  /\ prev.domain_discrete # info.domain_discrete

\* C10: the type tag written is a function of the domain's dtype alone:
\* FLOAT64 for int and float (so for both interval classes), BOOL for bool,
\* STRING for str, whatever the values and whatever type the record had.
C10_TypeTagFromDtype ==
  ncalls >= 1 =>
    LET dtype == Domain_dtype(result.obj)
    IN  /\ dtype \in {"int", "float"} => info.type = "DATA_TYPE_FLOAT64"
        /\ dtype = "bool" => info.type = "DATA_TYPE_BOOL"
        /\ dtype = "str" => info.type = "DATA_TYPE_STRING"
        /\ info.type \in {"DATA_TYPE_FLOAT64", "DATA_TYPE_BOOL", "DATA_TYPE_STRING"}

\* A Discrete of dtype bool updates a record whose type was STRING before.
C10_Witness ==
  /\ ncalls >= 1
  /\ result.obj.t = "Discrete"
  /\ result.obj.dtype = "bool"
  /\ heap[result.obj.values] # <<>>
  /\ prev.type = "DATA_TYPE_STRING"
  /\ info.type = "DATA_TYPE_BOOL"

----------------------------------------------------------------------------
\* Claims about HParam, Metric and Experiment.summary_pb (scenario Summary)

\* C1: once an Experiment has been constructed from objects the public
\* constructors returned, summary_pb() and Metric.as_proto() signal no
\* error.
C1_NoDeferredError == out.op \in {"summary_pb", "as_proto"} => out.res.ok

\* The HParamInfo fields a domain (or no domain) decides.
DomainFields(r) ==
  <<r.type, r.domain, r.domain_interval, r.domain_discrete>>

HParamDomainChecked(err) ==
  /\ call.cls = "HParam" =>
       LET d == call.args[2]
       IN  /\ result.ok <=> d.t \in {"NoneType", "IntInterval", "RealInterval", "Discrete"}
           /\ ~result.ok => result.err = err /\ result.obj.t # "HParam"
           /\ result.ok =>
                /\ HParam_name(result.obj) = call.args[1]
                /\ HParam_domain(result.obj) = d
                /\ HParam_display_name(result.obj) = call.args[3]
                /\ HParam_description(result.obj) = call.args[4]
  /\ (out.op = "summary_pb" /\ ~out.res.ok) => out.res.err # "AttributeError"

\* C9 as stated: a domain that is neither None nor a Domain instance is
\* rejected at construction with a type error.
C9_DomainTypeError == HParamDomainChecked("TypeError")

\* C9, amended: the rejection is a value error.
C9_DomainValueError == HParamDomainChecked("ValueError")

C9_Witness ==
  /\ call.cls = "HParam"
  /\ call.args[2] = PyInt(42)
  /\ ~result.ok
  /\ result.err = "ValueError"
  /\ Len(heap["callerH"]) = 1

----------------------------------------------------------------------------
\* Claims about the list accessors of Experiment (scenario Alias)

\* C3: every read of .hparams and .metrics returns a list equal, in contents
\* and order, to the list passed at construction as it was at that moment,
\* in an object that is neither the internal list nor the caller's list.
C3_ListsIsolated ==
  /\ justRead = "hparams" =>
       /\ heap[got] = call.args[1]
       /\ got \notin {exp.hparams, "callerH"}
  /\ justRead = "metrics" =>
       /\ heap[got] = call.args[2]
       /\ got \notin {exp.metrics, "callerM"}

\* A read of .hparams after a summary_pb() call, with both of the caller's
\* lists mutated since construction.
C3_Witness ==
  /\ justRead = "hparams"
  /\ out.op = "summary_pb"
  /\ heap["callerH"] # call.args[1]
  /\ heap["callerM"] # call.args[2]
  /\ call.args[1][1] # call.args[1][2]

====
